---- MODULE Spec2Model ----
(***************************************************************************)
(* Neonatal bilirubin risk engine (services/bilirubinCalculator.ts) and   *)
(* the form, clipboard summary and copy indicator of App.tsx.               *)
(*                                                                         *)
(* Numbers are exact rationals <<n, d>> (d > 0, lowest terms).  Text is a  *)
(* sequence of one-character strings.  A Date is [valid, time] with time   *)
(* in minutes of local time since 2024-01-01T00:00 (the inputs have minute *)
(* resolution; the local zone is taken to have a fixed UTC offset).        *)
(***************************************************************************)
EXTENDS Integers, Sequences, FiniteSets, TLC

VARIABLES op, args, ret, pc,
          formInput, result, error, isCopied, toastMessage,
          clipboard, writes, timers

\* the state of the App component, the clipboard and the pending callbacks
ui == <<formInput, result, error, isCopied, toastMessage, clipboard, writes, timers>>

vars == <<op, args, ret, pc, ui>>

----------------------------------------------------------------------------
(* Exact arithmetic on JavaScript numbers *)

Abs(n) == IF n < 0 THEN -n ELSE n

RECURSIVE GCD(_, _)
GCD(a, b) == IF b = 0 THEN a ELSE GCD(b, a % b)

\* the number n/d (d # 0) in lowest terms with a positive denominator
Rat(n, d) ==
    LET s == IF d < 0 THEN -1 ELSE 1
        g == GCD(Abs(n), Abs(d))
    IN  <<(s * n) \div g, (s * d) \div g>>

Num(n) == <<n, 1>>

RAdd(a, b) == Rat(a[1] * b[2] + b[1] * a[2], a[2] * b[2])
RSub(a, b) == Rat(a[1] * b[2] - b[1] * a[2], a[2] * b[2])
RMul(a, b) == Rat(a[1] * b[1], a[2] * b[2])
RDiv(a, b) == Rat(a[1] * b[2], a[2] * b[1])
RLt(a, b) == a[1] * b[2] < b[1] * a[2]
RLe(a, b) == a[1] * b[2] <= b[1] * a[2]
RGt(a, b) == RLt(b, a)
RGe(a, b) == RLe(b, a)
RFloor(a) == a[1] \div a[2]

RECURSIVE Pow(_, _)
Pow(b, k) == IF k = 0 THEN 1 ELSE b * Pow(b, k - 1)

RECURSIVE PowMod(_, _, _)
PowMod(b, k, m) == IF k = 0 THEN 1 % m ELSE (b * PowMod(b, k - 1, m)) % m

\* the exponent e of a positive number x: 2^e <= x < 2^(e+1)
RECURSIVE Log2Up(_, _)
Log2Up(p, q) == IF p < 2 * q THEN 0 ELSE 1 + Log2Up(p, 2 * q)

RECURSIVE Log2Down(_, _)
Log2Down(p, q) == IF p >= q THEN 0 ELSE Log2Down(2 * p, q) - 1

Log2(x) == IF x[1] >= x[2] THEN Log2Up(x[1], x[2]) ELSE Log2Down(x[1], x[2])

\* The IEEE-754 double nearest to the positive number x (53-bit significand,
\* round half to even) compared with x itself: -1 below, 0 equal, 1 above.
DoubleSide(x) ==
    LET q == x[2]
        k == 52 - Log2(x)
        r == ((x[1] % (2 * q)) * PowMod(2, k, 2 * q)) % (2 * q)
        frac == r % q
        odd == r \div q
    IN  IF frac = 0 THEN 0
        ELSE IF 2 * frac < q THEN -1
        ELSE IF 2 * frac > q THEN 1
        ELSE IF odd = 1 THEN 1 ELSE -1

\* toFixed that cuts the extra digits off instead of rounding
toFixed_Truncated(x, f) ==
    LET neg == x[1] < 0
        ax == <<Abs(x[1]), x[2]>>
        n == RFloor(RMul(ax, Num(Pow(10, f))))
    IN  [n |-> IF neg THEN -n ELSE n, f |-> f]

\* Number.prototype.toFixed(f): the decimal string with f fraction digits,
\* kept as the integer n of n / 10^f.  n / 10^f - x is as close to zero as
\* possible for the double x; of two such n the larger is taken.
toFixed(x, f) ==
    LET neg == x[1] < 0
        ax == <<Abs(x[1]), x[2]>>
        sc == RMul(ax, Num(Pow(10, f)))
        lo == RFloor(sc)
        rem2 == RMul(RSub(sc, Num(lo)), Num(2))
        n == IF RLt(rem2, Num(1)) THEN lo
             ELSE IF RGt(rem2, Num(1)) THEN lo + 1
             ELSE IF DoubleSide(ax) >= 0 THEN lo + 1 ELSE lo
    IN  [n |-> IF neg THEN -n ELSE n, f |-> f]

\* parseFloat of a string produced by toFixed
parseFloat(s) == Rat(s.n, Pow(10, s.f))

----------------------------------------------------------------------------
(* Reference tables.  Pt(x, t) is the data point [x, t / 10]. *)

Pt(x, t) == <<Num(x), Rat(t, 10)>>

\* bhutaniData whose low curve meets the lowIntermediate curve at hour 36
bhutaniData_LowMeetsAt36 ==
    [low |-> <<Pt(12, 35), Pt(24, 55), Pt(36, 95), Pt(48, 85), Pt(60, 90),
               Pt(96, 115), Pt(144, 125)>>,
     lowIntermediate |-> <<Pt(12, 50), Pt(24, 75), Pt(36, 95), Pt(48, 110),
                           Pt(60, 120), Pt(96, 135), Pt(144, 150)>>,
     highIntermediate |-> <<Pt(12, 65), Pt(24, 95), Pt(36, 120), Pt(48, 135),
                            Pt(60, 150), Pt(96, 170), Pt(144, 175)>>]

bhutaniData ==
    [low |-> <<Pt(12, 35), Pt(24, 55), Pt(36, 75), Pt(48, 85), Pt(60, 90),
               Pt(96, 115), Pt(144, 125)>>,
     lowIntermediate |-> <<Pt(12, 50), Pt(24, 75), Pt(36, 95), Pt(48, 110),
                           Pt(60, 120), Pt(96, 135), Pt(144, 150)>>,
     highIntermediate |-> <<Pt(12, 65), Pt(24, 95), Pt(36, 120), Pt(48, 135),
                            Pt(60, 150), Pt(96, 170), Pt(144, 175)>>]

aapPlData ==
    [lowerRisk |-> <<Pt(0, 50), Pt(24, 120), Pt(48, 150), Pt(72, 180),
                     Pt(96, 200), Pt(120, 210), Pt(168, 215)>>,
     mediumRisk |-> <<Pt(0, 40), Pt(24, 100), Pt(48, 130), Pt(72, 150),
                      Pt(96, 170), Pt(120, 180), Pt(168, 185)>>,
     higherRisk |-> <<Pt(0, 30), Pt(24, 80), Pt(48, 110), Pt(72, 130),
                      Pt(96, 145), Pt(120, 155), Pt(168, 160)>>]

\* aapDvetData whose lowerRisk value at hour 24 lost its leading digit
aapDvetData_LowAt24 ==
    [lowerRisk |-> <<Pt(0, 120), Pt(24, 90), Pt(48, 220), Pt(72, 240),
                     Pt(96, 250), Pt(168, 250)>>,
     mediumRisk |-> <<Pt(0, 100), Pt(24, 170), Pt(48, 190), Pt(72, 210),
                      Pt(96, 225), Pt(168, 230)>>,
     higherRisk |-> <<Pt(0, 80), Pt(24, 150), Pt(48, 170), Pt(72, 185),
                      Pt(96, 200), Pt(168, 205)>>]

aapDvetData ==
    [lowerRisk |-> <<Pt(0, 120), Pt(24, 190), Pt(48, 220), Pt(72, 240),
                     Pt(96, 250), Pt(168, 250)>>,
     mediumRisk |-> <<Pt(0, 100), Pt(24, 170), Pt(48, 190), Pt(72, 210),
                      Pt(96, 225), Pt(168, 230)>>,
     higherRisk |-> <<Pt(0, 80), Pt(24, 150), Pt(48, 170), Pt(72, 185),
                      Pt(96, 200), Pt(168, 205)>>]

\* Maisels ranges [min, max], keyed as in the source
maiselsData ==
    [k \in {28, 29, 31, 33, 34} |->
        CASE k = 28 -> [pl |-> <<5, 6>>, dvet |-> <<11, 14>>]
          [] k = 29 -> [pl |-> <<6, 8>>, dvet |-> <<12, 14>>]
          [] k = 31 -> [pl |-> <<8, 10>>, dvet |-> <<13, 16>>]
          [] k = 33 -> [pl |-> <<10, 12>>, dvet |-> <<15, 18>>]
          [] k = 34 -> [pl |-> <<12, 14>>, dvet |-> <<17, 19>>]]

----------------------------------------------------------------------------
(* linearInterpolate *)

\* points.find((p) => p[0] >= x): index of the first such point, 0 if none
RECURSIVE FindFrom(_, _, _)
FindFrom(points, x, i) ==
    IF i > Len(points) THEN 0
    ELSE IF RGe(points[i][1], x) THEN i
    ELSE FindFrom(points, x, i + 1)

\* linearInterpolate whose find looks for p[0] > x
linearInterpolate_StrictFind(points, x) ==
    IF RLe(x, points[1][1]) THEN points[1][2]
    ELSE IF RGe(x, points[Len(points)][1]) THEN points[Len(points)][2]
    ELSE
        LET after == {i \in 1..Len(points) : RGt(points[i][1], x)}
            i1 == IF after = {} THEN Len(points)
                  ELSE CHOOSE i \in after : \A j \in after : i <= j
            p1 == points[i1]
            p0 == IF i1 - 1 >= 1 THEN points[i1 - 1] ELSE points[1]
            x0 == p0[1]
            y0 == p0[2]
            x1 == p1[1]
            y1 == p1[2]
        IN  IF x1 = x0 THEN y0
            ELSE RAdd(y0, RDiv(RMul(RSub(x, x0), RSub(y1, y0)), RSub(x1, x0)))

\* linearInterpolate that takes the found point as its own left neighbour
linearInterpolate_LeftIsRight(points, x) ==
    IF RLe(x, points[1][1]) THEN points[1][2]
    ELSE IF RGe(x, points[Len(points)][1]) THEN points[Len(points)][2]
    ELSE
        LET found == FindFrom(points, x, 1)
            i1 == IF found = 0 THEN Len(points) ELSE found
            p1 == points[i1]
            p0 == points[i1]
            x0 == p0[1]
            y0 == p0[2]
            x1 == p1[1]
            y1 == p1[2]
        IN  IF x1 = x0 THEN y0
            ELSE RAdd(y0, RDiv(RMul(RSub(x, x0), RSub(y1, y0)), RSub(x1, x0)))

\* linearInterpolate without the clamp above the last point
linearInterpolate_Extrapolating(points, x) ==
    IF RLe(x, points[1][1]) THEN points[1][2]
    ELSE
        LET found == FindFrom(points, x, 1)
            i1 == IF found = 0 THEN Len(points) ELSE found
            p1 == points[i1]
            p0 == IF i1 - 1 >= 1 THEN points[i1 - 1] ELSE points[1]
            x0 == p0[1]
            y0 == p0[2]
            x1 == p1[1]
            y1 == p1[2]
        IN  IF x1 = x0 THEN y0
            ELSE RAdd(y0, RDiv(RMul(RSub(x, x0), RSub(y1, y0)), RSub(x1, x0)))

\* linearInterpolate that measures the query from the right bracket point
linearInterpolate_FromRight(points, x) ==
    IF RLe(x, points[1][1]) THEN points[1][2]
    ELSE IF RGe(x, points[Len(points)][1]) THEN points[Len(points)][2]
    ELSE
        LET found == FindFrom(points, x, 1)
            i1 == IF found = 0 THEN Len(points) ELSE found
            p1 == points[i1]
            p0 == IF i1 - 1 >= 1 THEN points[i1 - 1] ELSE points[1]
            x0 == p0[1]
            y0 == p0[2]
            x1 == p1[1]
            y1 == p1[2]
        IN  IF x1 = x0 THEN y0
            ELSE RAdd(y0, RDiv(RMul(RSub(x1, x), RSub(y1, y0)), RSub(x1, x0)))

linearInterpolate(points, x) ==
    IF RLe(x, points[1][1]) THEN points[1][2]
    ELSE IF RGe(x, points[Len(points)][1]) THEN points[Len(points)][2]
    ELSE
        LET found == FindFrom(points, x, 1)
            i1 == IF found = 0 THEN Len(points) ELSE found
            p1 == points[i1]
            \* points[lastIndexOf(p1) - 1] || points[0]
            p0 == IF i1 - 1 >= 1 THEN points[i1 - 1] ELSE points[1]
            x0 == p0[1]
            y0 == p0[2]
            x1 == p1[1]
            y1 == p1[2]
        IN  IF x1 = x0 THEN y0
            ELSE RAdd(y0, RDiv(RMul(RSub(x, x0), RSub(y1, y0)), RSub(x1, x0)))

----------------------------------------------------------------------------
(* getBhutaniZone *)

\* getBhutaniZone that stops classifying at hour 144 itself
getBhutaniZone_From144(hol, tcb) ==
    IF RGe(hol, Num(144)) THEN "NotApplicable"
    ELSE IF RGt(tcb, linearInterpolate(bhutaniData.highIntermediate, hol))
        THEN "High"
    ELSE IF RGt(tcb, linearInterpolate(bhutaniData.lowIntermediate, hol))
        THEN "HighIntermediate"
    ELSE IF RGt(tcb, linearInterpolate(bhutaniData.low, hol))
        THEN "LowIntermediate"
    ELSE "Low"

\* getBhutaniZone with inclusive comparisons against the curves
getBhutaniZone_Inclusive(hol, tcb) ==
    IF RGt(hol, Num(144)) THEN "NotApplicable"
    ELSE IF RGe(tcb, linearInterpolate(bhutaniData.highIntermediate, hol))
        THEN "High"
    ELSE IF RGe(tcb, linearInterpolate(bhutaniData.lowIntermediate, hol))
        THEN "HighIntermediate"
    ELSE IF RGe(tcb, linearInterpolate(bhutaniData.low, hol))
        THEN "LowIntermediate"
    ELSE "Low"

getBhutaniZone(hol, tcb) ==
    IF RGt(hol, Num(144)) THEN "NotApplicable"
    ELSE IF RGt(tcb, linearInterpolate(bhutaniData.highIntermediate, hol))
        THEN "High"
    ELSE IF RGt(tcb, linearInterpolate(bhutaniData.lowIntermediate, hol))
        THEN "HighIntermediate"
    ELSE IF RGt(tcb, linearInterpolate(bhutaniData.low, hol))
        THEN "LowIntermediate"
    ELSE "Low"

----------------------------------------------------------------------------
(* getAapThresholds *)

\* AapTier with the 38-week row starting after 38.0
AapTier_Strict38(aog, hasRiskFactors) ==
    IF RGt(aog, Num(38))
    THEN (IF hasRiskFactors THEN "mediumRisk" ELSE "lowerRisk")
    ELSE (IF hasRiskFactors THEN "higherRisk" ELSE "mediumRisk")

\* AapTier that ignores the risk factors below 38 weeks
AapTier_RiskIgnoredBelow38(aog, hasRiskFactors) ==
    IF RGe(aog, Num(38))
    THEN (IF hasRiskFactors THEN "mediumRisk" ELSE "lowerRisk")
    ELSE "mediumRisk"

\* the risk tier whose plCurve / dvetCurve pair the if-else ladder selects
AapTier(aog, hasRiskFactors) ==
    IF RGe(aog, Num(38))
    THEN (IF hasRiskFactors THEN "mediumRisk" ELSE "lowerRisk")
    ELSE (IF hasRiskFactors THEN "higherRisk" ELSE "mediumRisk")

NumberThreshold(status, value) ==
    [status |-> status, threshold |-> [kind |-> "number", value |-> value]]

\* getAapThresholds with tcb > threshold for ABOVE
getAapThresholds_Strict(hol, aog, hasRiskFactors, tcb) ==
    LET plCurve == aapPlData[AapTier(aog, hasRiskFactors)]
        dvetCurve == aapDvetData[AapTier(aog, hasRiskFactors)]
        plThreshold == linearInterpolate(plCurve, hol)
        dvetThreshold == linearInterpolate(dvetCurve, hol)
    IN  [phototherapy |->
            NumberThreshold(IF RGt(tcb, plThreshold) THEN "ABOVE" ELSE "BELOW",
                            parseFloat(toFixed(plThreshold, 2))),
         exchangeTransfusion |->
            NumberThreshold(IF RGt(tcb, dvetThreshold) THEN "ABOVE" ELSE "BELOW",
                            parseFloat(toFixed(dvetThreshold, 2)))]

getAapThresholds(hol, aog, hasRiskFactors, tcb) ==
    LET plCurve == aapPlData[AapTier(aog, hasRiskFactors)]
        dvetCurve == aapDvetData[AapTier(aog, hasRiskFactors)]
        plThreshold == linearInterpolate(plCurve, hol)
        dvetThreshold == linearInterpolate(dvetCurve, hol)
    IN  [phototherapy |->
            NumberThreshold(IF RGe(tcb, plThreshold) THEN "ABOVE" ELSE "BELOW",
                            parseFloat(toFixed(plThreshold, 2))),
         exchangeTransfusion |->
            NumberThreshold(IF RGe(tcb, dvetThreshold) THEN "ABOVE" ELSE "BELOW",
                            parseFloat(toFixed(dvetThreshold, 2)))]

----------------------------------------------------------------------------
(* getMaiselsThresholds *)

DigitChars == <<"0", "1", "2", "3", "4", "5", "6", "7", "8", "9">>

\* the decimal text of an integer, as a template literal prints it
RECURSIVE NatText(_)
NatText(n) ==
    IF n < 10 THEN <<DigitChars[n + 1]>>
    ELSE NatText(n \div 10) \o <<DigitChars[(n % 10) + 1]>>

IntText(n) == IF n < 0 THEN <<"-">> \o NatText(-n) ELSE NatText(n)

\* band selection whose upper bounds are inclusive
MaiselsBand_Inclusive(aog) ==
    IF RLe(aog, Num(28)) THEN 28
    ELSE IF RLe(aog, Num(30)) THEN 29
    ELSE IF RLe(aog, Num(32)) THEN 31
    ELSE IF RLe(aog, Num(34)) THEN 33
    ELSE 34

MaiselsBand(aog) ==
    IF RLt(aog, Num(28)) THEN 28
    ELSE IF RLt(aog, Num(30)) THEN 29
    ELSE IF RLt(aog, Num(32)) THEN 31
    ELSE IF RLt(aog, Num(34)) THEN 33
    ELSE 34

\* getStatus that treats the bounds themselves as outside the range
getStatus_Exclusive(value, min, max) ==
    IF RGe(value, Num(max)) THEN "ABOVE"
    ELSE IF RLe(value, Num(min)) THEN "BELOW"
    ELSE "WITHIN"

getStatus(value, min, max) ==
    IF RGt(value, Num(max)) THEN "ABOVE"
    ELSE IF RLt(value, Num(min)) THEN "BELOW"
    ELSE "WITHIN"

RangeThreshold(status, min, max) ==
    [status |-> status,
     threshold |-> [kind |-> "string",
                    value |-> IntText(min) \o <<"-">> \o IntText(max)]]

getMaiselsThresholds(aog, tcb) ==
    LET thresholds == maiselsData[MaiselsBand(aog)]
        plMin == thresholds.pl[1]
        plMax == thresholds.pl[2]
        dvetMin == thresholds.dvet[1]
        dvetMax == thresholds.dvet[2]
    IN  [phototherapy |->
            RangeThreshold(getStatus(tcb, plMin, plMax), plMin, plMax),
         exchangeTransfusion |->
            RangeThreshold(getStatus(tcb, dvetMin, dvetMax), dvetMin, dvetMax)]

----------------------------------------------------------------------------
(* Timestamps: formatDateTime and new Date(text) *)

IsSpace(c) == c \in {" ", "\t"}

IsDigit(c) == c \in {"0", "1", "2", "3", "4", "5", "6", "7", "8", "9"}

DigitVal(c) == CHOOSE v \in 0..9 : DigitChars[v + 1] = c

\* dt.replace(/\//g, '-')
ReplaceSlashes(dt) == [i \in 1..Len(dt) |-> IF dt[i] = "/" THEN "-" ELSE dt[i]]

\* index of the first whitespace character at or after i, 0 if none
RECURSIVE FirstSpace(_, _)
FirstSpace(s, i) ==
    IF i > Len(s) THEN 0
    ELSE IF IsSpace(s[i]) THEN i
    ELSE FirstSpace(s, i + 1)

\* index just past the whitespace run that starts at i
RECURSIVE SpaceRunEnd(_, _)
SpaceRunEnd(s, i) ==
    IF i <= Len(s) /\ IsSpace(s[i]) THEN SpaceRunEnd(s, i + 1) ELSE i

\* s.replace(/\s+-\s+|\s+/, 'T'): the leftmost match only
ReplaceFirstSeparator(s) ==
    LET i == FirstSpace(s, 1)
        j == SpaceRunEnd(s, i)
        dashed == j + 1 <= Len(s) /\ s[j] = "-" /\ IsSpace(s[j + 1])
        k == IF dashed THEN SpaceRunEnd(s, j + 1) ELSE j
    IN  IF i = 0 THEN s
        ELSE SubSeq(s, 1, i - 1) \o <<"T">> \o SubSeq(s, k, Len(s))

\* index of the first "/" at or after i, 0 if none
RECURSIVE FirstSlash(_, _)
FirstSlash(s, i) ==
    IF i > Len(s) THEN 0
    ELSE IF s[i] = "/" THEN i
    ELSE FirstSlash(s, i + 1)

\* formatDateTime whose slash pattern lacks the g flag
formatDateTime_FirstSlashOnly(dt) ==
    ReplaceFirstSeparator(
        [i \in 1..Len(dt) |-> IF i = FirstSlash(dt, 1) THEN "-" ELSE dt[i]])

formatDateTime(dt) == ReplaceFirstSeparator(ReplaceSlashes(dt))

\* days from 2024-01-01 to the civil date y-m-d (proleptic Gregorian)
DaysFromCivil(y, m, d) ==
    LET yy == IF m <= 2 THEN y - 1 ELSE y
        era == yy \div 400
        yoe == yy - era * 400
        mp == IF m > 2 THEN m - 3 ELSE m + 9
        doy == (153 * mp + 2) \div 5 + d - 1
        doe == yoe * 365 + yoe \div 4 - yoe \div 100 + doy
    IN  era * 146097 + doe - 719468 - 19723

\* the civil date [year, month, day] of a day number counted from 2024-01-01
CivilFromDays(days) ==
    LET z == days + 19723 + 719468
        era == z \div 146097
        doe == z - era * 146097
        yoe == (doe - doe \div 1460 + doe \div 36524 - doe \div 146096) \div 365
        doy == doe - (365 * yoe + yoe \div 4 - yoe \div 100)
        mp == (5 * doy + 2) \div 153
        d == doy - (153 * mp + 2) \div 5 + 1
        m == IF mp < 10 THEN mp + 3 ELSE mp - 9
        y == yoe + era * 400
    IN  [year |-> IF m <= 2 THEN y + 1 ELSE y, month |-> m, day |-> d]

InvalidDate == [valid |-> FALSE, time |-> 0]

TwoDigits(s, i) == 10 * DigitVal(s[i]) + DigitVal(s[i + 1])

\* new Date(text) for the local date-time form YYYY-MM-DDTHH:mm.  Text of any
\* other shape is left to the engine's fallback parser, which rejects the
\* texts used here that are not of this form.
NewDate(s) ==
    IF /\ Len(s) = 16
       /\ \A i \in {1, 2, 3, 4, 6, 7, 9, 10, 12, 13, 15, 16} : IsDigit(s[i])
       /\ s[5] = "-" /\ s[8] = "-" /\ s[11] = "T" /\ s[14] = ":"
    THEN LET y == 100 * TwoDigits(s, 1) + TwoDigits(s, 3)
             mo == TwoDigits(s, 6)
             d == TwoDigits(s, 9)
             h == TwoDigits(s, 12)
             mi == TwoDigits(s, 15)
         IN  IF mo \in 1..12 /\ d \in 1..31 /\ h \in 0..23 /\ mi \in 0..59
             THEN [valid |-> TRUE,
                   time |-> (DaysFromCivil(y, mo, d) * 24 + h) * 60 + mi]
             ELSE InvalidDate
    ELSE InvalidDate

\* toLocaleDateString(): month/day/year of the local date
toLocaleDateString(date) ==
    LET c == CivilFromDays(date.time \div 1440)
    IN  IntText(c.month) \o <<"/">> \o IntText(c.day) \o <<"/">> \o IntText(c.year)

Pad2(n) == <<DigitChars[(n \div 10) + 1], DigitChars[(n % 10) + 1]>>

\* toLocaleTimeString(): hh:mm:ss of the local time of day
toLocaleTimeString(date) ==
    LET t == date.time % 1440
    IN  Pad2(t \div 60) \o <<":">> \o Pad2(t % 60) \o <<":", "0", "0">>

----------------------------------------------------------------------------
(* calculateBilirubinRisk *)

Undefined == [kind |-> "undefined", value |-> Num(0)]

Number(r) == [kind |-> "number", value |-> r]

\* !v for a value that is a number or undefined
NotNumber(v) == v.kind = "undefined" \/ v.value[1] = 0

\* !s for a string
NotString(s) == Len(s) = 0

Null == [kind |-> "null"]

MinutesPerHour == 60

\* the guard with a TCB of 0 taken as a value
MissingRequired_ZeroTcbAccepted(input) ==
    \/ NotString(input.birthDateTime)
    \/ NotString(input.measurementDateTime)
    \/ input.tcbValue.kind = "undefined"
    \/ NotNumber(input.gestationalWeeks)

\* the guard with the form's range check on TCB (tcbValue <= 0)
MissingRequired_NonPositiveTcb(input) ==
    \/ NotString(input.birthDateTime)
    \/ NotString(input.measurementDateTime)
    \/ input.tcbValue.kind = "undefined" \/ input.tcbValue.value[1] <= 0
    \/ NotNumber(input.gestationalWeeks)

\* !birthDateTime || !measurementDateTime || !tcbValue || !gestationalWeeks
MissingRequired(input) ==
    \/ NotString(input.birthDateTime)
    \/ NotString(input.measurementDateTime)
    \/ NotNumber(input.tcbValue)
    \/ NotNumber(input.gestationalWeeks)

\* isNaN(..) && isNaN(..) in place of ||
InvalidDates_Both(birthDate, measurementDate) ==
    ~birthDate.valid /\ ~measurementDate.valid

\* isNaN(birthDate.getTime()) || isNaN(measurementDate.getTime())
InvalidDates(birthDate, measurementDate) ==
    ~birthDate.valid \/ ~measurementDate.valid

\* measurementDate < birthDate
NotAfter_Strict(measurementDate, birthDate) ==
    measurementDate.time < birthDate.time

\* measurementDate <= birthDate
NotAfter(measurementDate, birthDate) == measurementDate.time <= birthDate.time

\* HoursOfLife already rounded to one decimal place
HoursOfLife_Rounded(measurementDate, birthDate) ==
    parseFloat(toFixed(Rat(measurementDate.time - birthDate.time, MinutesPerHour), 1))

\* (measurementDate.getTime() - birthDate.getTime()) / (1000 * 60 * 60)
HoursOfLife(measurementDate, birthDate) ==
    Rat(measurementDate.time - birthDate.time, MinutesPerHour)

\* AogDecimal that counts at most 6 days of the days field
AogDecimal_DaysCapped(gestationalWeeks, gestationalDays) ==
    RAdd(gestationalWeeks,
         Rat(IF gestationalDays > 6 THEN 6 ELSE gestationalDays, 7))

\* gestationalWeeks + (gestationalDays / 7)
AogDecimal(gestationalWeeks, gestationalDays) ==
    RAdd(gestationalWeeks, Rat(gestationalDays, 7))

\* aogDecimal < 35: the Bhutani nomogram does not apply
BelowBhutaniAge(aogDecimal) == RLt(aogDecimal, Num(35))

\* aogDecimal > 35
AapAge_Strict(aogDecimal) == RGt(aogDecimal, Num(35))

\* aogDecimal >= 35: AAP thresholds, otherwise Maisels
AapAge(aogDecimal) == RGe(aogDecimal, Num(35))

calculateBilirubinRisk(input) ==
    IF MissingRequired(input) THEN Null
    ELSE
    LET birthDate == NewDate(formatDateTime(input.birthDateTime))
        measurementDate == NewDate(formatDateTime(input.measurementDateTime))
    IN  IF InvalidDates(birthDate, measurementDate) THEN Null
        ELSE IF NotAfter(measurementDate, birthDate) THEN Null
        ELSE
        LET hol == HoursOfLife(measurementDate, birthDate)
            tcbValue == input.tcbValue.value
            gestationalWeeks == input.gestationalWeeks.value
            gestationalDays == input.gestationalDays
            aogDecimal == AogDecimal(gestationalWeeks, gestationalDays)
            bhutaniZone == IF BelowBhutaniAge(aogDecimal) THEN "NotApplicable"
                           ELSE getBhutaniZone(hol, tcbValue)
            therapyThresholds ==
                IF AapAge(aogDecimal)
                THEN getAapThresholds(hol, aogDecimal, input.hasRiskFactors,
                                      tcbValue)
                ELSE getMaiselsThresholds(aogDecimal, tcbValue)
        IN  [dob |-> toLocaleDateString(birthDate),
             tob |-> toLocaleTimeString(birthDate),
             hol |-> parseFloat(toFixed(hol, 1)),
             tcb |-> tcbValue,
             aog |-> IntText(gestationalWeeks[1]) \o <<"w", " ">>
                        \o IntText(gestationalDays) \o <<"d">>,
             bhutaniZone |-> bhutaniZone,
             phototherapy |-> therapyThresholds.phototherapy,
             exchangeTransfusion |-> therapyThresholds.exchangeTransfusion]

----------------------------------------------------------------------------
(* Inputs of the checked calls *)

\* the four accepted ways of writing one calendar date-time
Formats == {"iso", "dashSpace", "slashSpace", "slashDash"}

\* c = [year, month, day, hour, minute] written in format f
Render(f, c) ==
    LET dsep == IF f \in {"iso", "dashSpace"} THEN <<"-">> ELSE <<"/">>
        tsep == CASE f = "iso" -> <<"T">>
                  [] f = "slashDash" -> <<" ", "-", " ">>
                  [] OTHER -> <<" ">>
    IN  IntText(c.year) \o dsep \o Pad2(c.month) \o dsep \o Pad2(c.day)
            \o tsep \o Pad2(c.hour) \o <<":">> \o Pad2(c.minute)

Jan2024(d, h, mi) == [year |-> 2024, month |-> 1, day |-> d, hour |-> h, minute |-> mi]

EmptyText == <<>>

InvalidText == <<"i", "n", "v", "a", "l", "i", "d", "-", "d", "a", "t", "e">>

\* measurements are taken up to this many whole days after 2024-01-01
MaxElapsedDays == 7

BirthMoment == Jan2024(1, 10, 0)

\* births written in the iso format only: a later one, and one in the old year
OtherBirthMoments ==
    {Jan2024(3, 10, 0),
     [year |-> 2023, month |-> 12, day |-> 31, hour |-> 22, minute |-> 0]}

BirthTexts ==
    {Render(f, BirthMoment) : f \in Formats}
        \cup {Render("iso", c) : c \in OtherBirthMoments}
        \cup {EmptyText, InvalidText}

\* moments written in every format
FormatMoments == {Jan2024(1, 10, 0), Jan2024(2, 10, 0), Jan2024(7, 10, 2)}

\* moments written in the iso format: every whole day, and some minutes apart
IsoMoments ==
    {Jan2024(1 + k, 10, 0) : k \in 0..MaxElapsedDays}
        \cup {Jan2024(1, 9, 0), Jan2024(1, 10, 3), Jan2024(1, 10, 5),
              Jan2024(1, 10, 6), Jan2024(1, 11, 0), Jan2024(1, 22, 0),
              Jan2024(2, 4, 0)}

MeasurementTexts ==
    {Render(f, c) : f \in Formats, c \in FormatMoments}
        \cup {Render("iso", c) : c \in IsoMoments}
        \cup {EmptyText, InvalidText}

TcbValues ==
    {Undefined, Number(Num(0)), Number(Num(-1)), Number(Rat(15, 2)),
     Number(Num(10)), Number(Num(20))}

WeeksValues ==
    {Undefined, Number(Num(0)), Number(Num(27)), Number(Num(34)),
     Number(Num(35)), Number(Num(37)), Number(Num(38)), Number(Num(43))}

DaysValues == {0, 6, 7}

CalculationInputs ==
    [birthDateTime : BirthTexts, measurementDateTime : MeasurementTexts,
     tcbValue : TcbValues, gestationalWeeks : WeeksValues,
     gestationalDays : DaysValues, hasRiskFactors : BOOLEAN]

\* inputs of the corrected-age tests: preterm and near-term ages, measured
\* whole days after birth, with the usePediatricCorrectedAge flag
PcaInputs ==
    [birthDateTime : {Render("iso", BirthMoment)},
     measurementDateTime :
        {Render("iso", Jan2024(1 + d, 10, 0)) : d \in 1..MaxElapsedDays},
     tcbValue : {Number(Num(10))},
     gestationalWeeks : {Number(Num(w)) : w \in {31, 32, 34, 36}},
     gestationalDays : {0, 3, 5, 6},
     hasRiskFactors : {FALSE},
     usePediatricCorrectedAge : BOOLEAN]

\* direct calls: hours of life on a 6-hour grid, TCB on a quarter grid
MaxHolSteps == 28

MaxTcbQuarters == 104

HolGrid == {Num(6 * k) : k \in 0..MaxHolSteps}

TcbGrid == {Rat(q, 4) : q \in 0..MaxTcbQuarters}

AogGrid == {Num(35), Num(37), Rat(379, 10), Num(38), Num(42)}

MaxAogDays == 70

\* gestational ages from 26w 0d on in steps of one day, and the decimal ages
\* just below each band boundary
MaiselsAogGrid ==
    {Rat(26 * 7 + k, 7) : k \in 0..MaxAogDays}
        \cup {Rat(279, 10), Rat(299, 10), Rat(319, 10), Rat(339, 10)}

MaiselsArgs == [aog : MaiselsAogGrid, tcb : TcbGrid]

\* the nine reference curves
ReferenceCurves ==
    {bhutaniData.low, bhutaniData.lowIntermediate, bhutaniData.highIntermediate,
     aapPlData.lowerRisk, aapPlData.mediumRisk, aapPlData.higherRisk,
     aapDvetData.lowerRisk, aapDvetData.mediumRisk, aapDvetData.higherRisk}

\* the tables of the linearInterpolate tests
testPoints == <<Pt(0, 0), Pt(10, 100), Pt(20, 200)>>

nonLinear == <<Pt(0, 0), Pt(10, 200), Pt(20, 100)>>

duplicateX == <<Pt(0, 0), Pt(10, 100), Pt(10, 200), Pt(20, 200)>>

singlePoint == <<Pt(5, 100)>>

\* tables whose first or last x is carried by two points
leadingDuplicate == <<Pt(0, 0), Pt(0, 100), Pt(10, 200)>>

trailingDuplicate == <<Pt(0, 0), Pt(10, 100), Pt(10, 200)>>

Tables ==
    ReferenceCurves \cup {testPoints, nonLinear, duplicateX, singlePoint,
                          leadingDuplicate, trailingDuplicate}

MaxQueryHours == 174

\* whole hours from before every table to after every table
QueryGrid == {Num(h) : h \in -6..MaxQueryHours}

InterpArgs == [points : Tables, x : QueryGrid]

MaxExtraMinutes == 30

\* direct calls minute by minute after hour 24, TCB in hundredths around the
\* 24-hour checkpoints of the phototherapy curves
AapMinuteArgs ==
    [hol : {Rat(24 * 60 + m, 60) : m \in 0..MaxExtraMinutes},
     aog : {Num(37), Num(38)},
     hasRiskFactors : BOOLEAN,
     tcb : {Rat(800 + q, 100) : q \in 0..3} \cup {Rat(1000 + q, 100) : q \in 0..3}
              \cup {Rat(1200 + q, 100) : q \in 0..3} \cup {Num(19)}]

ZoneArgs == [hol : HolGrid, tcb : TcbGrid]

AapArgs == [hol : HolGrid, aog : AogGrid, hasRiskFactors : BOOLEAN, tcb : TcbGrid]

----------------------------------------------------------------------------
(* App.tsx: the component state after construction *)

initialState ==
    [birthDateTime |-> <<>>, measurementDateTime |-> <<>>, tcbValue |-> <<>>,
     gestationalWeeks |-> <<>>, gestationalDays |-> <<>>, hasRiskFactors |-> FALSE]

NoText == [kind |-> "none"]

\* the useState initial values; nothing copied, no callback pending
Mounted ==
    /\ formInput = initialState
    /\ result = Null
    /\ error = ""
    /\ isCopied = FALSE
    /\ toastMessage = ""
    /\ clipboard = NoText
    /\ writes = <<>>
    /\ timers = <<>>

----------------------------------------------------------------------------
(* The calls as a state machine: the arguments are chosen, the function runs *)

NoReturn == [kind |-> "none"]

Chosen(name, domain) ==
    /\ op = name
    /\ args \in domain
    /\ ret = NoReturn
    /\ pc = "call"
    /\ Mounted

Returns(name, value) ==
    /\ pc = "call"
    /\ op = name
    /\ ret' = value
    /\ pc' = "done"
    /\ UNCHANGED <<op, args, ui>>

Init == Chosen("calculateBilirubinRisk", CalculationInputs)

CallCalculateBilirubinRisk ==
    Returns("calculateBilirubinRisk", calculateBilirubinRisk(args))

Next == CallCalculateBilirubinRisk

Spec == Init /\ [][Next]_vars

InitZone == Chosen("getBhutaniZone", ZoneArgs)

CallGetBhutaniZone ==
    Returns("getBhutaniZone", getBhutaniZone(args.hol, args.tcb))

NextZone == CallGetBhutaniZone

SpecZone == InitZone /\ [][NextZone]_vars

InitAap == Chosen("getAapThresholds", AapArgs)

CallGetAapThresholds ==
    Returns("getAapThresholds",
            getAapThresholds(args.hol, args.aog, args.hasRiskFactors, args.tcb))

NextAap == CallGetAapThresholds

SpecAap == InitAap /\ [][NextAap]_vars

InitMaisels == Chosen("getMaiselsThresholds", MaiselsArgs)

CallGetMaiselsThresholds ==
    Returns("getMaiselsThresholds", getMaiselsThresholds(args.aog, args.tcb))

NextMaisels == CallGetMaiselsThresholds

SpecMaisels == InitMaisels /\ [][NextMaisels]_vars

InitInterp == Chosen("linearInterpolate", InterpArgs)

CallLinearInterpolate ==
    Returns("linearInterpolate", linearInterpolate(args.points, args.x))

NextInterp == CallLinearInterpolate

SpecInterp == InitInterp /\ [][NextInterp]_vars

InitPca == Chosen("calculateBilirubinRisk", PcaInputs)

NextPca == CallCalculateBilirubinRisk

SpecPca == InitPca /\ [][NextPca]_vars

InitAapMinutes == Chosen("getAapThresholds", AapMinuteArgs)

SpecAapMinutes == InitAapMinutes /\ [][NextAap]_vars

----------------------------------------------------------------------------
(* App.tsx: the form *)

NaN == [kind |-> "NaN", value |-> Num(0)]

isNaN(v) == v.kind = "NaN"

\* index just past the run of digits that starts at i
RECURSIVE DigitRunEnd(_, _)
DigitRunEnd(s, i) ==
    IF i <= Len(s) /\ IsDigit(s[i]) THEN DigitRunEnd(s, i + 1) ELSE i

\* the number written by the digits s[i..j-1]
RECURSIVE DigitsValue(_, _, _)
DigitsValue(s, i, j) ==
    IF j <= i THEN 0 ELSE 10 * DigitsValue(s, i, j - 1) + DigitVal(s[j - 1])

\* parseInt(text, 10): leading whitespace, a sign, then digits; NaN without digits
parseInt(s) ==
    LET start == SpaceRunEnd(s, 1)
        signed == start <= Len(s) /\ s[start] \in {"+", "-"}
        first == IF signed THEN start + 1 ELSE start
        end == DigitRunEnd(s, first)
        magnitude == DigitsValue(s, first, end)
    IN  IF end = first THEN NaN
        ELSE Number(Num(IF signed /\ s[start] = "-" THEN -magnitude ELSE magnitude))

\* parseFloat(text): leading whitespace, a sign, digits, and a fraction after
\* a point; NaN without digits.  Exponents do not occur in the texts used.
parseFloatText(s) ==
    LET start == SpaceRunEnd(s, 1)
        signed == start <= Len(s) /\ s[start] \in {"+", "-"}
        first == IF signed THEN start + 1 ELSE start
        end == DigitRunEnd(s, first)
        pointed == end <= Len(s) /\ s[end] = "."
        fracEnd == IF pointed THEN DigitRunEnd(s, end + 1) ELSE end
        fracLen == IF pointed THEN fracEnd - (end + 1) ELSE 0
        whole == DigitsValue(s, first, end)
        frac == IF pointed THEN DigitsValue(s, end + 1, fracEnd) ELSE 0
        magnitude == RAdd(Num(whole), Rat(frac, Pow(10, fracLen)))
    IN  IF end = first /\ fracLen = 0 THEN NaN
        ELSE Number(IF signed /\ s[start] = "-"
                    THEN RSub(Num(0), magnitude) ELSE magnitude)

\* handleChange: one field of the form takes the value of its control
handleChange(values) ==
    /\ \E name \in DOMAIN values :
          \E value \in values[name] :
              /\ value # formInput[name]
              /\ formInput' = [formInput EXCEPT ![name] = value]
    /\ UNCHANGED <<op, args, ret, pc, result, error, isCopied, toastMessage,
                   clipboard, writes, timers>>

\* handleSetCurrentTime: the measurement field takes the current local time
handleSetCurrentTime(now) ==
    /\ \E c \in now :
          /\ Render("slashDash", c) # formInput.measurementDateTime
          /\ formInput' = [formInput EXCEPT !.measurementDateTime = Render("slashDash", c)]
    /\ UNCHANGED <<op, args, ret, pc, result, error, isCopied, toastMessage,
                   clipboard, writes, timers>>

\* the controls marked required hold a value, so the browser submits the form
RequiredFilled ==
    /\ formInput.birthDateTime # <<>>
    /\ formInput.measurementDateTime # <<>>
    /\ formInput.tcbValue # <<>>
    /\ formInput.gestationalWeeks # <<>>

WeeksError == "Gestational weeks must be between 28 and 42."

DaysError == "Gestational days must be between 0 and 6."

TcbError == "TcB value must be greater than 0."

EngineError == "Could not calculate risk. Please check your inputs. Birth date/time must be before measurement date/time."

\* the range check on the weeks that admits every number
WeeksOutOfRange_NaNOnly(gestationalWeeks) == isNaN(gestationalWeeks)

\* isNaN(gestationalWeeks) || gestationalWeeks < 28 || gestationalWeeks > 42
WeeksOutOfRange(gestationalWeeks) ==
    \/ isNaN(gestationalWeeks)
    \/ RLt(gestationalWeeks.value, Num(28))
    \/ RGt(gestationalWeeks.value, Num(42))

\* isNaN(gestationalDays) || gestationalDays < 0 || gestationalDays > 6
DaysOutOfRange(gestationalDays) ==
    \/ isNaN(gestationalDays)
    \/ RLt(gestationalDays.value, Num(0))
    \/ RGt(gestationalDays.value, Num(6))

\* isNaN(tcbValue) || tcbValue <= 0
TcbOutOfRange(tcbValue) == isNaN(tcbValue) \/ RLe(tcbValue.value, Num(0))

\* the failed branch of handleSubmit that also clears the result
SubmitFails_ClearsResult(message) ==
    /\ error' = message
    /\ result' = Null
    /\ UNCHANGED <<op, args, ret, pc, formInput, isCopied, toastMessage, clipboard,
                   writes, timers>>

\* setError(message); return
SubmitFails(message) ==
    /\ error' = message
    /\ UNCHANGED <<op, args, ret, pc, formInput, result, isCopied, toastMessage,
                   clipboard, writes, timers>>

\* handleSubmit; the call of the engine is recorded in op, args and ret
handleSubmit ==
    /\ RequiredFilled
    /\ LET tcbValue == parseFloatText(formInput.tcbValue)
           gestationalWeeks == parseInt(formInput.gestationalWeeks)
           gestationalDays == IF formInput.gestationalDays = <<>> THEN Number(Num(0))
                              ELSE parseInt(formInput.gestationalDays)
       IN  IF WeeksOutOfRange(gestationalWeeks) THEN SubmitFails(WeeksError)
           ELSE IF DaysOutOfRange(gestationalDays) THEN SubmitFails(DaysError)
           ELSE IF TcbOutOfRange(tcbValue) THEN SubmitFails(TcbError)
           ELSE
           LET calculationInput ==
                   [birthDateTime |-> formInput.birthDateTime,
                    measurementDateTime |-> formInput.measurementDateTime,
                    hasRiskFactors |-> formInput.hasRiskFactors,
                    tcbValue |-> tcbValue,
                    gestationalWeeks |-> gestationalWeeks,
                    gestationalDays |-> gestationalDays.value[1]]
               calculationResult == calculateBilirubinRisk(calculationInput)
           IN  /\ op' = "calculateBilirubinRisk"
               /\ args' = calculationInput
               /\ ret' = calculationResult
               /\ pc' = "done"
               /\ IF calculationResult # Null
                  THEN result' = calculationResult /\ error' = ""
                  ELSE error' = EngineError /\ UNCHANGED result
               /\ UNCHANGED <<formInput, isCopied, toastMessage, clipboard, writes, timers>>

\* handleReset
handleReset ==
    /\ formInput' = initialState
    /\ result' = Null
    /\ error' = ""
    /\ isCopied' = FALSE
    /\ UNCHANGED <<op, args, ret, pc, toastMessage, clipboard, writes, timers>>

\* the values typed into the form
FormValues ==
    [birthDateTime |-> {Render("slashDash", BirthMoment)},
     measurementDateTime |-> {Render("slashDash", Jan2024(1, 9, 0))},
     tcbValue |-> {<<"0">>, <<"1", "0">>},
     gestationalWeeks |-> {<<"2", "7">>, <<"2", "8">>, <<"4", "2">>, <<"4", "3">>},
     gestationalDays |-> {<<>>, <<"6">>, <<"7">>},
     hasRiskFactors |-> BOOLEAN]

\* the time at which the current-time button is pressed
NowMoments == {Jan2024(2, 10, 0)}

\* no engine call made yet
NoCall ==
    /\ op = "none"
    /\ args = NoReturn
    /\ ret = NoReturn
    /\ pc = "idle"

InitForm == NoCall /\ Mounted

ChangeForm == handleChange(FormValues)

SetCurrentTime == handleSetCurrentTime(NowMoments)

NextForm == ChangeForm \/ SetCurrentTime \/ handleSubmit \/ handleReset

SpecForm == InitForm /\ [][NextForm]_vars

----------------------------------------------------------------------------
(* App.tsx: the clipboard summary *)

NotAvailable == <<"N", "/", "A">>

\* parts[0] of text.split(/\s+-\s+|\s+/)
FirstPart(s) ==
    LET i == FirstSpace(s, 1)
    IN  IF i = 0 THEN s ELSE SubSeq(s, 1, i - 1)

\* parts[1] of text.split(/\s+-\s+|\s+/), empty if there is none
SecondPart(s) ==
    LET i == FirstSpace(s, 1)
        j == SpaceRunEnd(s, i)
        dashed == j + 1 <= Len(s) /\ s[j] = "-" /\ IsSpace(s[j + 1])
        k == IF dashed THEN SpaceRunEnd(s, j + 1) ELSE j
        n == FirstSpace(s, k)
    IN  IF i = 0 THEN <<>>
        ELSE SubSeq(s, k, IF n = 0 THEN Len(s) ELSE n - 1)

\* (part || '').trim() || 'N/A'; the parts of a split on whitespace hold none
OrNotAvailable(part) == IF part = <<>> THEN NotAvailable ELSE part

\* Math.round
MathRound(x) == RFloor(RAdd(x, Rat(1, 2)))

\* the text of a toFixed result
FixedText(s) ==
    LET scale == Pow(10, s.f)
        magnitude == Abs(s.n)
        fraction == NatText(scale + (magnitude % scale))
    IN  (IF s.n < 0 THEN <<"-">> ELSE <<>>)
            \o NatText(magnitude \div scale)
            \o (IF s.f = 0 THEN <<>> ELSE <<".">> \o Tail(fraction))

\* formatThreshold; Math.round(value * 10) is taken on the exact product
formatThreshold(threshold) ==
    LET numericValue == IF threshold.kind = "number" THEN Number(threshold.value)
                        ELSE parseFloatText(threshold.value)
        rounded == Rat(MathRound(RMul(numericValue.value, Num(10))), 10)
        withOneDecimal == FixedText(toFixed(rounded, 1))
        n == Len(withOneDecimal)
    IN  IF isNaN(numericValue) THEN threshold.value
        ELSE IF SubSeq(withOneDecimal, n - 1, n) = <<".", "0">>
             THEN SubSeq(withOneDecimal, 1, n - 2)
        ELSE withOneDecimal

\* the lines of textToCopy, one field for the variable part of each line
textToCopy(form, calculationResult) ==
    LET weeks == parseInt(form.gestationalWeeks)
        days == IF form.gestationalDays = <<>> THEN Number(Num(0))
                ELSE parseInt(form.gestationalDays)
        gestationalAgeText ==
            IF isNaN(weeks) THEN NotAvailable
            ELSE IntText(weeks.value[1]) \o <<" ", "w", "e", "e", "k", "s", " ">>
                    \o (IF isNaN(days) THEN <<"0">> ELSE IntText(days.value[1]))
                    \o <<"/", "7", " ", "d", "a", "y", "s">>
        totalWeeks == RAdd(weeks.value, IF isNaN(days) THEN Num(0)
                                        ELSE RDiv(days.value, Num(7)))
        riskCategory ==
            IF isNaN(weeks) THEN "N/A"
            ELSE IF RGe(totalWeeks, Num(38))
                 THEN (IF form.hasRiskFactors THEN "Medium Risk Neonate"
                       ELSE "Low Risk Neonate")
            ELSE IF RGe(totalWeeks, Num(35))
                 THEN (IF form.hasRiskFactors THEN "High Risk Neonate"
                       ELSE "Medium Risk Neonate")
            ELSE "High Risk Neonate"
    IN  [dob |-> OrNotAvailable(FirstPart(form.birthDateTime)),
         tob |-> OrNotAvailable(SecondPart(form.birthDateTime)),
         aog |-> gestationalAgeText,
         hol |-> IntText(MathRound(calculationResult.hol)),
         riskCategory |-> riskCategory,
         tcb |-> FixedText(toFixed(calculationResult.tcb, 1)),
         photolevel |-> [status |-> calculationResult.phototherapy.status,
                         threshold |-> formatThreshold(
                             calculationResult.phototherapy.threshold)],
         dvet |-> [status |-> calculationResult.exchangeTransfusion.status,
                   threshold |-> formatThreshold(
                       calculationResult.exchangeTransfusion.threshold)],
         zone |-> calculationResult.bhutaniZone]

CopiedToast == "Results copied to clipboard!"

FailedToast == "Failed to copy!"

\* copies whose promise or whose toast timer is still pending
MaxPendingCopies == 3

PendingCopies == Len(writes) + Cardinality({i \in 1..Len(timers) : timers[i] = "toast"})

\* handleCopyToClipboard up to its await: the text is built from the form and
\* the result and handed to navigator.clipboard.writeText, which takes it or
\* rejects.  The button is shown with a result and disabled while isCopied.
handleCopyToClipboard ==
    /\ result # Null
    /\ ~isCopied
    /\ PendingCopies < MaxPendingCopies
    /\ \E written \in BOOLEAN :
          /\ clipboard' = IF written THEN textToCopy(formInput, result) ELSE clipboard
          /\ writes' = Append(writes, written)
    /\ UNCHANGED <<op, args, ret, pc, formInput, result, error, isCopied,
                   toastMessage, timers>>

RemoveAt(s, i) == SubSeq(s, 1, i - 1) \o SubSeq(s, i + 1, Len(s))

\* handleCopyToClipboard after its await: the try branch or the catch branch
writeSettles ==
    /\ \E i \in 1..Len(writes) :
          /\ writes' = RemoveAt(writes, i)
          /\ IF writes[i]
             THEN /\ isCopied' = TRUE
                  /\ toastMessage' = CopiedToast
                  /\ timers' = timers \o <<"isCopied", "toast">>
             ELSE /\ toastMessage' = FailedToast
                  /\ timers' = Append(timers, "toast")
                  /\ UNCHANGED isCopied
    /\ UNCHANGED <<op, args, ret, pc, formInput, result, error, clipboard>>

\* the pending timer i may run: no timer set earlier is due before it (an
\* isCopied timer runs after 2000 ms, a toast timer after 3000 ms)
Due(i) ==
    /\ i \in 1..Len(timers)
    /\ \A j \in 1..(i - 1) : timers[i] = "isCopied" /\ timers[j] = "toast"

\* a timer whose callback leaves the state it was to clear as it is
timerFiresAt_NoEffect(i) ==
    /\ Due(i)
    /\ timers' = RemoveAt(timers, i)
    /\ UNCHANGED <<op, args, ret, pc, formInput, result, error, clipboard, writes,
                   isCopied, toastMessage>>

\* a setTimeout callback runs: setIsCopied(false) or setToastMessage('')
timerFiresAt(i) ==
    /\ Due(i)
    /\ timers' = RemoveAt(timers, i)
    /\ IF timers[i] = "isCopied"
       THEN isCopied' = FALSE /\ UNCHANGED toastMessage
       ELSE toastMessage' = "" /\ UNCHANGED isCopied
    /\ UNCHANGED <<op, args, ret, pc, formInput, result, error, clipboard, writes>>

timerFires == \E i \in 1..Len(timers) : timerFiresAt(i)

\* the values typed into the form while results are copied
UiValues ==
    [birthDateTime |-> {Render("slashDash", BirthMoment)},
     measurementDateTime |-> {Render("slashDash", Jan2024(2, 10, 0))},
     tcbValue |-> {<<"1", "0">>},
     gestationalWeeks |-> {<<"3", "5">>, <<"3", "8">>}]

InitUi == NoCall /\ Mounted

ChangeUi == handleChange(UiValues)

NextUi ==
    \/ ChangeUi
    \/ handleSubmit
    \/ handleReset
    \/ handleCopyToClipboard
    \/ writeSettles
    \/ timerFires

\* a pending promise settles and the oldest pending timer runs
FairUi == WF_vars(writeSettles) /\ WF_vars(timerFiresAt(1))

SpecUi == InitUi /\ [][NextUi]_vars /\ FairUi

----------------------------------------------------------------------------
(* What the chosen texts say, read off the way they were written *)

Moments == FormatMoments \cup IsoMoments \cup {BirthMoment} \cup OtherBirthMoments

Written == {<<Render(f, c), c>> : f \in Formats, c \in Moments}

IsWritten(text) == \E p \in Written : p[1] = text

MomentOf(text) == (CHOOSE p \in Written : p[1] = text)[2]

\* minutes from 2024-01-01T00:00 to a moment of January 2024 or December 2023
MinuteOf(c) ==
    IF c.year = 2024 THEN ((c.day - 1) * 24 + c.hour) * 60 + c.minute
    ELSE ((c.day - 32) * 24 + c.hour) * 60 + c.minute

Called == pc = "done"

AbsentOrZero(v) == v = Undefined \/ v = Number(Num(0))

MissingField(input) ==
    \/ input.birthDateTime = EmptyText
    \/ input.measurementDateTime = EmptyText
    \/ AbsentOrZero(input.tcbValue)
    \/ AbsentOrZero(input.gestationalWeeks)

Unparseable(input) ==
    \/ input.birthDateTime # EmptyText /\ ~IsWritten(input.birthDateTime)
    \/ input.measurementDateTime # EmptyText /\ ~IsWritten(input.measurementDateTime)

BothWritten(input) ==
    IsWritten(input.birthDateTime) /\ IsWritten(input.measurementDateTime)

\* minutes from the written birth to the written measurement
ElapsedMinutes(input) ==
    MinuteOf(MomentOf(input.measurementDateTime))
        - MinuteOf(MomentOf(input.birthDateTime))

NotChronological(input) == BothWritten(input) /\ ElapsedMinutes(input) <= 0

ValidationFailure(input) ==
    MissingField(input) \/ Unparseable(input) \/ NotChronological(input)

Zones == {"High", "HighIntermediate", "LowIntermediate", "Low"}

IsThresholdResult(t) ==
    /\ DOMAIN t = {"status", "threshold"}
    /\ t.status \in {"ABOVE", "BELOW", "WITHIN"}
    /\ t.threshold.kind \in {"number", "string"}

IsCompleteResult(r) ==
    /\ DOMAIN r = {"dob", "tob", "hol", "tcb", "aog", "bhutaniZone",
                   "phototherapy", "exchangeTransfusion"}
    /\ r.bhutaniZone \in Zones \cup {"NotApplicable"}
    /\ IsThresholdResult(r.phototherapy)
    /\ IsThresholdResult(r.exchangeTransfusion)
    /\ Len(r.dob) > 0 /\ Len(r.tob) > 0 /\ Len(r.aog) > 0

IsoText(c) == Render("iso", c)

DayLater == IsoText(Jan2024(2, 10, 0))

\* gestational age in days (7 * age in weeks) of an input with weeks given
AgeDays(input) == 7 * input.gestationalWeeks.value[1] + input.gestationalDays

----------------------------------------------------------------------------
(* C1: calculateBilirubinRisk returns null whenever the birth text is empty,
   the measurement text is empty, the TCB is absent or 0, or the weeks are
   absent or 0, whatever the other fields are. *)
C1_MissingFieldFails ==
    (Called /\ MissingField(args)) => ret = Null

\* a TCB of 0 among otherwise valid fields was turned down
C1_Witness ==
    /\ Called
    /\ args.tcbValue = Number(Num(0))
    /\ args.birthDateTime = IsoText(BirthMoment)
    /\ args.measurementDateTime = DayLater
    /\ args.gestationalWeeks = Number(Num(38))
    /\ ret = Null

(* C2: calculateBilirubinRisk returns null whenever the measurement moment is
   not strictly after the birth moment: equal moments and a measurement
   before birth both fail. *)
C2_NotAfterBirthFails ==
    (Called /\ NotChronological(args)) => ret = Null

\* equal moments, written differently, among otherwise valid fields
C2_Witness ==
    /\ Called
    /\ args.birthDateTime = IsoText(BirthMoment)
    /\ args.measurementDateTime = Render("slashDash", BirthMoment)
    /\ args.tcbValue = Number(Num(10))
    /\ args.gestationalWeeks = Number(Num(38))
    /\ ret = Null

(* C3: every call returns: a timestamp that does not parse gives null, every
   validation failure (missing field, unparseable timestamp, wrong order)
   gives the same null, and what is returned is null or a complete result,
   never a partial one. *)
C3_ValidationFailureIsNull ==
    Called =>
        /\ ret = Null \/ IsCompleteResult(ret)
        /\ Unparseable(args) => ret = Null
        /\ ValidationFailure(args) => ret = Null

\* an unparseable birth text among otherwise valid fields
C3_Witness ==
    /\ Called
    /\ args.birthDateTime = InvalidText
    /\ args.measurementDateTime = DayLater
    /\ args.tcbValue = Number(Num(10))
    /\ args.gestationalWeeks = Number(Num(38))
    /\ ret = Null

(* C4: an input fails for the three causes only: when both texts are
   non-empty and parse with the measurement strictly after the birth, and TCB
   and weeks are given and non-zero, the call returns a complete result,
   whatever the days, the sign of the TCB, the weeks or the risk flag. *)
C4_OnlyThreeCauses ==
    (Called /\ ~ValidationFailure(args)) => IsCompleteResult(ret)

\* days of 7, a negative TCB, 43 weeks and the risk flag, and a full result
C4_Witness ==
    /\ Called
    /\ args.gestationalDays = 7
    /\ args.tcbValue = Number(Num(-1))
    /\ args.gestationalWeeks = Number(Num(43))
    /\ args.hasRiskFactors
    /\ IsCompleteResult(ret)

(* C5: the same date-time written as YYYY-MM-DDThh:mm, YYYY-MM-DD hh:mm,
   YYYY/MM/DD hh:mm or YYYY/MM/DD - hh:mm parses to the same instant, so the
   call returns what it returns for the iso writing of both fields, for
   every combination of formats. *)
C5_FormatIndependent ==
    (Called /\ BothWritten(args)) =>
        LET birthIso == IsoText(MomentOf(args.birthDateTime))
            measurementIso == IsoText(MomentOf(args.measurementDateTime))
        IN  /\ NewDate(formatDateTime(args.birthDateTime)) = NewDate(birthIso)
            /\ NewDate(formatDateTime(args.measurementDateTime))
                    = NewDate(measurementIso)
            /\ NewDate(birthIso).valid /\ NewDate(measurementIso).valid
            /\ ret = calculateBilirubinRisk(
                        [args EXCEPT !.birthDateTime = birthIso,
                                     !.measurementDateTime = measurementIso])

\* mixed formats, a day apart, reported as 24 hours
C5_Witness ==
    /\ Called
    /\ args.birthDateTime = Render("slashDash", BirthMoment)
    /\ args.measurementDateTime = Render("dashSpace", Jan2024(2, 10, 0))
    /\ ret # Null
    /\ ret.hol = Num(24)

(* C6: result.hol is the elapsed time in hours rounded to one decimal place:
   a multiple of 0.1 nearest to the exact value, exact for whole hours, and
   0.1 for six minutes. *)
C6_HolRounded ==
    (Called /\ ret # Null /\ BothWritten(args)) =>
        LET exact == Rat(ElapsedMinutes(args), 60)
            off == RSub(ret.hol, exact)
        IN  /\ 10 % ret.hol[2] = 0
            /\ RLe(<<Abs(off[1]), off[2]>>, Rat(1, 20))
            /\ exact[2] = 1 => ret.hol = exact
            /\ ElapsedMinutes(args) = 6 => ret.hol = Rat(1, 10)

\* six minutes of life reported as 0.1
C6_Witness ==
    /\ Called
    /\ ret # Null
    /\ ElapsedMinutes(args) = 6
    /\ ret.hol = Rat(1, 10)

IsRangeText(t) ==
    \E k \in 2..(Len(t) - 1) :
        /\ t[k] = "-"
        /\ \A i \in (1..Len(t)) \ {k} : IsDigit(t[i])

(* C7: the guideline depends on weeks + days/7 alone: from 35 weeks on (35w
   0d included) both thresholds are numbers (AAP), below 35 weeks (34w 6d
   included) both are "min-max" strings (Maisels). *)
C7_GuidelineByAge ==
    (Called /\ ret # Null) =>
        LET pl == ret.phototherapy.threshold
            dvet == ret.exchangeTransfusion.threshold
        IN  IF AgeDays(args) >= 7 * 35
            THEN pl.kind = "number" /\ dvet.kind = "number"
            ELSE /\ pl.kind = "string" /\ IsRangeText(pl.value)
                 /\ dvet.kind = "string" /\ IsRangeText(dvet.value)

\* exactly 35w 0d is on the AAP path
C7_Witness ==
    /\ Called
    /\ ret # Null
    /\ args.gestationalWeeks = Number(Num(35))
    /\ args.gestationalDays = 0
    /\ ret.phototherapy.threshold.kind = "number"
    /\ ret.exchangeTransfusion.threshold.kind = "number"

(* C8: in every result the Bhutani zone is NotApplicable exactly when the
   age is below 35 weeks or more than 144 hours have passed; otherwise
   (hour 144 included) it is one of the four risk zones. *)
C8_ZoneApplicability ==
    (Called /\ ret # Null /\ BothWritten(args)) =>
        /\ ret.bhutaniZone = "NotApplicable"
              <=> (AgeDays(args) < 7 * 35 \/ ElapsedMinutes(args) > 144 * 60)
        /\ ret.bhutaniZone # "NotApplicable" => ret.bhutaniZone \in Zones

\* hour 144 exactly, at 35 weeks or more, is still classified
C8_Witness ==
    /\ Called
    /\ ret # Null
    /\ ElapsedMinutes(args) = 144 * 60
    /\ AgeDays(args) >= 7 * 35
    /\ ret.bhutaniZone \in Zones

(* C9: up to hour 144 getBhutaniZone compares strictly against the three
   interpolated curves: High iff tcb > highIntermediate; HighIntermediate iff
   lowIntermediate < tcb <= highIntermediate; LowIntermediate iff
   low < tcb <= lowIntermediate; Low iff tcb <= low.  A TCB equal to a curve
   value is in the lower of the two zones. *)
C9_StrictZoneBoundaries ==
    (Called /\ RLe(args.hol, Num(144))) =>
        LET hi == linearInterpolate(bhutaniData.highIntermediate, args.hol)
            li == linearInterpolate(bhutaniData.lowIntermediate, args.hol)
            lo == linearInterpolate(bhutaniData.low, args.hol)
        IN  /\ ret = "High" <=> RGt(args.tcb, hi)
            /\ ret = "HighIntermediate"
                  <=> (RGt(args.tcb, li) /\ RLe(args.tcb, hi))
            /\ ret = "LowIntermediate"
                  <=> (RGt(args.tcb, lo) /\ RLe(args.tcb, li))
            /\ ret = "Low" <=> RLe(args.tcb, lo)

\* TCB 7.5 at hour 24 is on the lowIntermediate curve: LowIntermediate zone
C9_Witness ==
    /\ Called
    /\ args.hol = Num(24)
    /\ args.tcb = Rat(15, 2)
    /\ args.tcb = linearInterpolate(bhutaniData.lowIntermediate, args.hol)
    /\ ret = "LowIntermediate"

\* the tier the table of the claim names
TableTier(aog, hasRiskFactors) ==
    CASE RGe(aog, Num(38)) /\ ~hasRiskFactors -> "lowerRisk"
      [] RGe(aog, Num(38)) /\ hasRiskFactors -> "mediumRisk"
      [] RLt(aog, Num(38)) /\ ~hasRiskFactors -> "mediumRisk"
      [] RLt(aog, Num(38)) /\ hasRiskFactors -> "higherRisk"

(* C10: getAapThresholds takes both the phototherapy and the exchange
   threshold from the tier of the table: from 38 weeks lowerRisk without and
   mediumRisk with risk factors, from 35 to under 38 weeks mediumRisk
   without and higherRisk with risk factors. *)
C10_TierTable ==
    Called =>
        LET tier == TableTier(args.aog, args.hasRiskFactors)
        IN  /\ ret.phototherapy.threshold.value =
                  parseFloat(toFixed(linearInterpolate(aapPlData[tier], args.hol), 2))
            /\ ret.exchangeTransfusion.threshold.value =
                  parseFloat(toFixed(linearInterpolate(aapDvetData[tier], args.hol), 2))

\* 37.9 weeks without risk factors at hour 24: the mediumRisk values 10 and 17
C10_Witness ==
    /\ Called
    /\ args.aog = Rat(379, 10)
    /\ ~args.hasRiskFactors
    /\ args.hol = Num(24)
    /\ ret.phototherapy.threshold.value = Num(10)
    /\ ret.exchangeTransfusion.threshold.value = Num(17)

----------------------------------------------------------------------------
(* C11: on the AAP path the status of each family is ABOVE if TCB >= the
   threshold interpolated from the selected curve at the hours of life, and
   BELOW otherwise; a TCB equal to the threshold is ABOVE, and the status is
   never WITHIN or N/A. *)
C11_AapStatusInclusive ==
    Called =>
        LET tier == TableTier(args.aog, args.hasRiskFactors)
            pl == linearInterpolate(aapPlData[tier], args.hol)
            dvet == linearInterpolate(aapDvetData[tier], args.hol)
        IN  /\ ret.phototherapy.status =
                  (IF RLt(args.tcb, pl) THEN "BELOW" ELSE "ABOVE")
            /\ ret.exchangeTransfusion.status =
                  (IF RLt(args.tcb, dvet) THEN "BELOW" ELSE "ABOVE")

\* TCB 12 at hour 24, 38 weeks, no risk factors: on the threshold, ABOVE
C11_Witness ==
    /\ Called
    /\ args.hol = Num(24)
    /\ args.aog = Num(38)
    /\ ~args.hasRiskFactors
    /\ args.tcb = Num(12)
    /\ args.tcb = linearInterpolate(aapPlData.lowerRisk, args.hol)
    /\ ret.phototherapy.status = "ABOVE"
    /\ ret.exchangeTransfusion.status = "BELOW"

\* the input of the worked AAP example: 24 hours, TCB 10, 38w 0d, no risk factors
IsAapExample(input) ==
    /\ input.birthDateTime = IsoText(BirthMoment)
    /\ input.measurementDateTime = DayLater
    /\ input.tcbValue = Number(Num(10))
    /\ input.gestationalWeeks = Number(Num(38))
    /\ input.gestationalDays = 0
    /\ ~input.hasRiskFactors

(* C12 as written: the worked example returns phototherapy threshold 12 with
   status ABOVE and exchange threshold 19 with status BELOW. *)
C12_AsWritten ==
    (Called /\ IsAapExample(args)) =>
        /\ ret # Null
        /\ ret.phototherapy = NumberThreshold("ABOVE", Num(12))
        /\ ret.exchangeTransfusion = NumberThreshold("BELOW", Num(19))

(* C12: the worked example (birth 2024-01-01T10:00, measurement
   2024-01-02T10:00, TCB 10, 38w 0d, no risk factors) returns phototherapy
   threshold 12 with status BELOW (10 < 12) and exchange threshold 19 with
   status BELOW. *)
C12_ExampleBelow ==
    (Called /\ IsAapExample(args)) =>
        /\ ret # Null
        /\ ret.hol = Num(24)
        /\ ret.phototherapy = NumberThreshold("BELOW", Num(12))
        /\ ret.exchangeTransfusion = NumberThreshold("BELOW", Num(19))

\* the worked example was computed
C12_Witness ==
    /\ Called
    /\ IsAapExample(args)
    /\ ret # Null
    /\ ret.phototherapy.status = "BELOW"
    /\ ret.phototherapy.threshold.value = Num(12)

----------------------------------------------------------------------------
\* the gestational ages that the band keyed b covers
InBand(b, aog) ==
    CASE b = 28 -> RLt(aog, Num(28))
      [] b = 29 -> RGe(aog, Num(28)) /\ RLt(aog, Num(30))
      [] b = 31 -> RGe(aog, Num(30)) /\ RLt(aog, Num(32))
      [] b = 33 -> RGe(aog, Num(32)) /\ RLt(aog, Num(34))
      [] b = 34 -> RGe(aog, Num(34))

\* "min-max" of a range
RangeText(range) == IntText(range[1]) \o <<"-">> \o IntText(range[2])

(* C13: getMaiselsThresholds selects exactly one band by gestational age with
   half-open intervals: < 28 -> band 28, [28,30) -> 29, [30,32) -> 31,
   [32,34) -> 33, >= 34 -> 34; each lower bound belongs to the upper band. *)
C13_MaiselsBands ==
    Called =>
        /\ Cardinality({b \in DOMAIN maiselsData : InBand(b, args.aog)}) = 1
        /\ \A b \in DOMAIN maiselsData :
              InBand(b, args.aog) =>
                  /\ ret.phototherapy.threshold.value = RangeText(maiselsData[b].pl)
                  /\ ret.exchangeTransfusion.threshold.value =
                        RangeText(maiselsData[b].dvet)
        /\ args.aog = Num(28) =>
              ret.phototherapy.threshold.value = <<"6", "-", "8">>
        /\ args.aog = Num(30) =>
              ret.phototherapy.threshold.value = <<"8", "-", "1", "0">>
        /\ args.aog = Num(32) =>
              ret.phototherapy.threshold.value = <<"1", "0", "-", "1", "2">>
        /\ args.aog = Num(34) =>
              ret.phototherapy.threshold.value = <<"1", "2", "-", "1", "4">>

\* exactly 28 weeks: the band keyed 29
C13_Witness ==
    /\ Called
    /\ args.aog = Num(28)
    /\ ret.phototherapy.threshold.value = <<"6", "-", "8">>
    /\ ret.exchangeTransfusion.threshold.value = <<"1", "2", "-", "1", "4">>

\* the status of a value against an inclusive range
RangeStatus(tcb, range) ==
    IF RLt(tcb, Num(range[1])) THEN "BELOW"
    ELSE IF RGt(tcb, Num(range[2])) THEN "ABOVE"
    ELSE "WITHIN"

(* C14: on the Maisels path each family's threshold is the text "min-max" of
   the selected band's range, and its status is BELOW if TCB < min, ABOVE if
   TCB > max and WITHIN otherwise, both bounds inclusive; band 28 gives "5-6"
   with TCB 4 BELOW, 5.5 WITHIN and 7 ABOVE. *)
C14_MaiselsStatus ==
    Called =>
        LET band == maiselsData[CHOOSE b \in DOMAIN maiselsData : InBand(b, args.aog)]
        IN  /\ ret.phototherapy =
                  [status |-> RangeStatus(args.tcb, band.pl),
                   threshold |-> [kind |-> "string", value |-> RangeText(band.pl)]]
            /\ ret.exchangeTransfusion =
                  [status |-> RangeStatus(args.tcb, band.dvet),
                   threshold |-> [kind |-> "string", value |-> RangeText(band.dvet)]]
            /\ args.tcb \in {Num(band.pl[1]), Num(band.pl[2])} =>
                  ret.phototherapy.status = "WITHIN"
            /\ args.tcb \in {Num(band.dvet[1]), Num(band.dvet[2])} =>
                  ret.exchangeTransfusion.status = "WITHIN"
            /\ RLt(args.aog, Num(28)) =>
                  /\ ret.phototherapy.threshold.value = <<"5", "-", "6">>
                  /\ args.tcb = Num(4) => ret.phototherapy.status = "BELOW"
                  /\ args.tcb = Rat(11, 2) => ret.phototherapy.status = "WITHIN"
                  /\ args.tcb = Num(7) => ret.phototherapy.status = "ABOVE"

\* TCB on the upper bound of the band-28 phototherapy range
C14_Witness ==
    /\ Called
    /\ args.aog = Num(27)
    /\ args.tcb = Num(6)
    /\ ret.phototherapy.status = "WITHIN"
    /\ ret.phototherapy.threshold.value = <<"5", "-", "6">>
    /\ ret.exchangeTransfusion.status = "BELOW"

----------------------------------------------------------------------------
StrictlyIncreasingX(points) ==
    \A i \in 1..(Len(points) - 1) : RLt(points[i][1], points[i + 1][1])

NonDecreasingY(points) ==
    \A i \in 1..(Len(points) - 1) : RLe(points[i][2], points[i + 1][2])

(* C15: on a table with strictly increasing x, linearInterpolate returns a
   checkpoint's y when the query equals its x, the first y for every query at
   or below the first x and the last y for every query at or above the last
   x; the nine reference curves are such tables. *)
C15_ExactAndClamped ==
    /\ \A curve \in ReferenceCurves : StrictlyIncreasingX(curve)
    /\ (Called /\ StrictlyIncreasingX(args.points)) =>
          LET points == args.points
              last == points[Len(points)]
          IN  /\ \A i \in 1..Len(points) :
                    args.x = points[i][1] => ret = points[i][2]
              /\ RLe(args.x, points[1][1]) => ret = points[1][2]
              /\ RGe(args.x, last[1]) => ret = last[2]

\* a query above the last checkpoint of a reference curve, held at the last y
C15_Witness ==
    /\ Called
    /\ args.points = bhutaniData.low
    /\ args.x = Num(150)
    /\ ret = Rat(125, 10)

(* C16: on a table whose y values do not decrease along ascending x,
   linearInterpolate does not decrease in the query: x1 <= x2 implies
   linearInterpolate(points, x1) <= linearInterpolate(points, x2), across
   segment boundaries and the clamped regions. *)
C16_Monotonic ==
    (Called /\ StrictlyIncreasingX(args.points) /\ NonDecreasingY(args.points)) =>
        \A x2 \in QueryGrid :
            /\ RLe(args.x, x2) => RLe(ret, linearInterpolate(args.points, x2))
            /\ RLe(x2, args.x) => RLe(linearInterpolate(args.points, x2), ret)

\* a query inside a segment of a rising curve, strictly between its end values
C16_Witness ==
    /\ Called
    /\ args.points = aapPlData.lowerRisk
    /\ args.x = Num(30)
    /\ RLt(Num(12), ret)
    /\ RLt(ret, Num(15))
    /\ RLt(linearInterpolate(args.points, Num(29)), ret)

----------------------------------------------------------------------------
(* C17: at every hours-of-life value, at the checkpoints, between them and in
   the clamped region below 12 h, the interpolated Bhutani thresholds satisfy
   low < lowIntermediate < highIntermediate, so each of the four zones holds
   some TCB value and the zones are ordered. *)
C17_CurveOrdering ==
    Called =>
        LET hi == linearInterpolate(bhutaniData.highIntermediate, args.hol)
            li == linearInterpolate(bhutaniData.lowIntermediate, args.hol)
            lo == linearInterpolate(bhutaniData.low, args.hol)
        IN  /\ RLt(lo, li)
            /\ RLt(li, hi)
            /\ RLe(args.hol, Num(144)) =>
                  /\ getBhutaniZone(args.hol, lo) = "Low"
                  /\ getBhutaniZone(args.hol, li) = "LowIntermediate"
                  /\ getBhutaniZone(args.hol, hi) = "HighIntermediate"
                  /\ getBhutaniZone(args.hol, RAdd(hi, Num(1))) = "High"

\* hour 6, in the clamped region: the curves stand at 3.5 < 5 < 6.5
C17_Witness ==
    /\ Called
    /\ args.hol = Num(6)
    /\ linearInterpolate(bhutaniData.low, args.hol) = Rat(7, 2)
    /\ linearInterpolate(bhutaniData.lowIntermediate, args.hol) = Num(5)
    /\ linearInterpolate(bhutaniData.highIntermediate, args.hol) = Rat(13, 2)
    /\ args.tcb = Num(6)
    /\ ret = "HighIntermediate"

\* lowerRisk >= mediumRisk >= higherRisk at every checkpoint of a family
TiersOrdered(data) ==
    \A i \in 1..Len(data.lowerRisk) :
        /\ data.lowerRisk[i][1] = data.mediumRisk[i][1]
        /\ data.mediumRisk[i][1] = data.higherRisk[i][1]
        /\ RGe(data.lowerRisk[i][2], data.mediumRisk[i][2])
        /\ RGe(data.mediumRisk[i][2], data.higherRisk[i][2])

(* C18: on the AAP path, for every gestational age from 35 weeks and every
   hours-of-life, the phototherapy threshold with risk factors is strictly
   lower than the one for the same input without them, the tiers are ordered
   lowerRisk >= mediumRisk >= higherRisk at every checkpoint, and a status
   ABOVE without risk factors implies ABOVE with risk factors. *)
C18_RiskLowersThreshold ==
    /\ TiersOrdered(aapPlData)
    /\ TiersOrdered(aapDvetData)
    /\ (Called /\ ~args.hasRiskFactors) =>
          LET withRisk == getAapThresholds(args.hol, args.aog, TRUE, args.tcb)
          IN  /\ RLt(withRisk.phototherapy.threshold.value,
                     ret.phototherapy.threshold.value)
              /\ RLt(linearInterpolate(aapPlData[TableTier(args.aog, TRUE)], args.hol),
                     linearInterpolate(aapPlData[TableTier(args.aog, FALSE)], args.hol))
              /\ ret.phototherapy.status = "ABOVE" =>
                    withRisk.phototherapy.status = "ABOVE"

\* TCB 10 at hour 24 and 37 weeks: ABOVE already without risk factors
C18_Witness ==
    /\ Called
    /\ ~args.hasRiskFactors
    /\ args.aog = Num(37)
    /\ args.hol = Num(24)
    /\ args.tcb = Num(10)
    /\ ret.phototherapy = NumberThreshold("ABOVE", Num(10))
    /\ getAapThresholds(args.hol, args.aog, TRUE, args.tcb).phototherapy
          = NumberThreshold("ABOVE", Num(8))

----------------------------------------------------------------------------
\* the correction applies: flag set and original age under 35 weeks
CorrectionApplies(input) ==
    input.usePediatricCorrectedAge /\ AgeDays(input) < 35 * 7

\* the age that selects the guideline is under 35 weeks; the corrected age is
\* the original age + hol/168 weeks, compared here in minutes
SelectsMaisels(input) ==
    IF CorrectionApplies(input)
    THEN AgeDays(input) * 24 * 60 + ElapsedMinutes(input) < 35 * 7 * 24 * 60
    ELSE AgeDays(input) < 35 * 7

EndsWithPca(text) ==
    /\ Len(text) > 6
    /\ SubSeq(text, Len(text) - 5, Len(text)) = <<" ", "(", "P", "C", "A", ")">>

(* C20: the result carries isUsingMaisels, isUsingCorrectedAge and
   correctedAog.  With usePediatricCorrectedAge set and an original age under
   35 weeks the guideline is selected by original age + hol/168 weeks (Maisels
   under 35, AAP/Bhutani from 35), isUsingCorrectedAge is true and correctedAog
   is a "<w>w <d>d (PCA)" text; otherwise the original age selects,
   isUsingCorrectedAge is false and correctedAog is null.  result.aog always
   shows the original age. *)
C20_PediatricCorrectedAge ==
    (Called /\ BothWritten(args) /\ ret # Null) =>
        /\ ret.aog = IntText(args.gestationalWeeks.value[1]) \o <<"w", " ">>
                        \o IntText(args.gestationalDays) \o <<"d">>
        /\ ret.phototherapy.threshold.kind =
              (IF SelectsMaisels(args) THEN "string" ELSE "number")
        /\ SelectsMaisels(args) => ret.bhutaniZone = "NotApplicable"
        /\ (~SelectsMaisels(args) /\ ElapsedMinutes(args) <= 144 * 60) =>
              ret.bhutaniZone # "NotApplicable"
        /\ {"isUsingMaisels", "isUsingCorrectedAge", "correctedAog"}
              \subseteq DOMAIN ret
        /\ ret.isUsingMaisels = SelectsMaisels(args)
        /\ ret.isUsingCorrectedAge = CorrectionApplies(args)
        /\ IF CorrectionApplies(args)
           THEN EndsWithPca(ret.correctedAog)
           ELSE ret.correctedAog = Null

----------------------------------------------------------------------------
\* the same age written with whole weeks and 0..6 days
SameAgeInput(input) ==
    [input EXCEPT !.gestationalWeeks = Number(Num(AgeDays(input) \div 7)),
                  !.gestationalDays = AgeDays(input) % 7]

(* C21: result.aog is the text "<weeks>w <days>d" of the input's own weeks
   and days, also when days is outside 0..6 (37 weeks 7 days is shown as
   "37w 7d"), while the branching uses weeks + days/7, so that 37w 7d is
   classified as 38w 0d is. *)
C21_AogShowsInput ==
    (Called /\ ret # Null) =>
        LET same == calculateBilirubinRisk(SameAgeInput(args))
        IN  /\ ret.aog = IntText(args.gestationalWeeks.value[1]) \o <<"w", " ">>
                            \o IntText(args.gestationalDays) \o <<"d">>
            /\ same # Null
            /\ ret.bhutaniZone = same.bhutaniZone
            /\ ret.phototherapy = same.phototherapy
            /\ ret.exchangeTransfusion = same.exchangeTransfusion
            /\ (args.gestationalWeeks = Number(Num(37)) /\ args.gestationalDays = 7) =>
                  /\ ret.aog = <<"3", "7", "w", " ", "7", "d">>
                  /\ same.aog = <<"3", "8", "w", " ", "0", "d">>

\* 37w 7d at 24 hours without risk factors: shown as entered, lowerRisk curve
C21_Witness ==
    /\ Called
    /\ ret # Null
    /\ args.gestationalWeeks = Number(Num(37))
    /\ args.gestationalDays = 7
    /\ ~args.hasRiskFactors
    /\ args.measurementDateTime = DayLater
    /\ args.birthDateTime = IsoText(BirthMoment)
    /\ ret.aog = <<"3", "7", "w", " ", "7", "d">>
    /\ ret.phototherapy.threshold.value = Num(12)

----------------------------------------------------------------------------
\* x is n/100 for the integer n nearest to 100 x
IsRoundedTo2(value, x) ==
    /\ 100 % value[2] = 0
    /\ RLe(RSub(x, value), Rat(1, 200))
    /\ RLe(RSub(value, x), Rat(1, 200))

\* a ThresholdResult whose status is the comparison with its own number
StatusMatchesReported(thresholdResult, tcb) ==
    thresholdResult.status =
        (IF RGe(tcb, thresholdResult.threshold.value) THEN "ABOVE" ELSE "BELOW")

(* C22: on the AAP path each ThresholdResult reports the interpolated
   threshold rounded to 2 decimal places, and its status is consistent with
   that reported number: ABOVE exactly when TCB >= the reported threshold,
   BELOW exactly when TCB is below it. *)
C22_StatusMatchesReportedValue ==
    Called =>
        LET tier == TableTier(args.aog, args.hasRiskFactors)
        IN  /\ IsRoundedTo2(ret.phototherapy.threshold.value,
                            linearInterpolate(aapPlData[tier], args.hol))
            /\ IsRoundedTo2(ret.exchangeTransfusion.threshold.value,
                            linearInterpolate(aapDvetData[tier], args.hol))
            /\ StatusMatchesReported(ret.phototherapy, args.tcb)
            /\ StatusMatchesReported(ret.exchangeTransfusion, args.tcb)

----------------------------------------------------------------------------
NonDecreasingX(points) ==
    \A i \in 1..(Len(points) - 1) : RLe(points[i][1], points[i + 1][1])

\* the indexes of the points that carry the x of the query
Carrying(points, x) == {i \in 1..Len(points) : points[i][1] = x}

FirstCarrying(points, x) ==
    CHOOSE i \in Carrying(points, x) : \A j \in Carrying(points, x) : i <= j

IsNumber(value) == /\ value \in Int \X Int
                   /\ value[2] > 0

\* a query strictly inside the x-range of the table
StrictlyInside(points, x) ==
    RGt(x, points[1][1]) /\ RLt(x, points[Len(points)][1])

\* the bracket of a query strictly inside the range: the first point at or
\* after the query and the point before it
RightIndex(points, x) ==
    CHOOSE i \in 1..Len(points) :
        /\ RGe(points[i][1], x)
        /\ \A j \in 1..(i - 1) : RLt(points[j][1], x)

(* C23 as written: on a table with non-decreasing x linearInterpolate returns
   a number for every query; a query equal to an x carried by several points
   returns the y of the first point carrying it, and a single-point table
   returns its only y. *)
C23_AsWritten ==
    (Called /\ NonDecreasingX(args.points)) =>
        /\ IsNumber(ret)
        /\ Cardinality(Carrying(args.points, args.x)) > 1 =>
              ret = args.points[FirstCarrying(args.points, args.x)][2]
        /\ Len(args.points) = 1 => ret = args.points[1][2]

(* C23: linearInterpolate never divides by zero: on a table with
   non-decreasing x it returns a number for every query; if the bracket
   points have equal x it returns left.y; a query equal to an x carried by
   several points returns the y of the first point carrying it, except that
   a query equal to the table's last x and above its first x returns the
   last point's y; a single-point table returns its only y. *)
C23_NoDivisionByZero ==
    (Called /\ NonDecreasingX(args.points)) =>
        LET points == args.points
            last == points[Len(points)]
        IN  /\ IsNumber(ret)
            /\ StrictlyInside(points, args.x) =>
                  LET right == RightIndex(points, args.x)
                  IN  points[right - 1][1] = points[right][1] =>
                          ret = points[right - 1][2]
            /\ Cardinality(Carrying(points, args.x)) > 1 =>
                  ret = (IF args.x = last[1] /\ args.x # points[1][1]
                         THEN last[2]
                         ELSE points[FirstCarrying(points, args.x)][2])
            /\ Len(points) = 1 => ret = points[1][2]

\* query 10 on the table with two points at x = 10: the first one's y
C23_Witness ==
    /\ Called
    /\ args.points = duplicateX
    /\ args.x = Num(10)
    /\ Carrying(args.points, args.x) = {2, 3}
    /\ ret = Num(10)

----------------------------------------------------------------------------
(* C24: every classification takes the exact hours of life and only the
   reported hol is rounded: the zone is NotApplicable exactly when the exact
   value exceeds 144 and otherwise the zone of the exact value, the AAP
   statuses compare TCB with the curves at the exact value, and a measurement
   two minutes past hour 144 gives NotApplicable while result.hol shows 144. *)
C24_ExactHoursClassify ==
    (Called /\ ret # Null /\ BothWritten(args) /\ AgeDays(args) >= 7 * 35) =>
        LET exact == Rat(ElapsedMinutes(args), 60)
            tier == TableTier(Rat(AgeDays(args), 7), args.hasRiskFactors)
            tcb == args.tcbValue.value
        IN  /\ ret.bhutaniZone =
                  (IF ElapsedMinutes(args) > 144 * 60 THEN "NotApplicable"
                   ELSE getBhutaniZone(exact, tcb))
            /\ ret.phototherapy.status =
                  (IF RGe(tcb, linearInterpolate(aapPlData[tier], exact))
                   THEN "ABOVE" ELSE "BELOW")
            /\ ret.exchangeTransfusion.status =
                  (IF RGe(tcb, linearInterpolate(aapDvetData[tier], exact))
                   THEN "ABOVE" ELSE "BELOW")
            /\ ElapsedMinutes(args) = 144 * 60 + 2 =>
                  /\ ret.hol = Num(144)
                  /\ ret.bhutaniZone = "NotApplicable"

\* two minutes past hour 144: shown as 144, no zone
C24_Witness ==
    /\ Called
    /\ ret # Null
    /\ BothWritten(args)
    /\ AgeDays(args) >= 7 * 35
    /\ ElapsedMinutes(args) = 144 * 60 + 2
    /\ ret.hol = Num(144)
    /\ ret.bhutaniZone = "NotApplicable"

----------------------------------------------------------------------------
(* C25: in every result, on the AAP and on the Maisels path,
   exchangeTransfusion ABOVE implies phototherapy ABOVE and phototherapy
   BELOW implies exchangeTransfusion BELOW: at the hours of life of the
   result every tier's exchange curve lies above its phototherapy curve, and
   in every Maisels band the phototherapy max is below the exchange min. *)
C25_ExchangeAbovePhototherapy ==
    (Called /\ ret # Null /\ BothWritten(args)) =>
        LET exact == Rat(ElapsedMinutes(args), 60)
        IN  /\ ret.exchangeTransfusion.status = "ABOVE" =>
                  ret.phototherapy.status = "ABOVE"
            /\ ret.phototherapy.status = "BELOW" =>
                  ret.exchangeTransfusion.status = "BELOW"
            /\ \A tier \in DOMAIN aapPlData :
                  RLt(linearInterpolate(aapPlData[tier], exact),
                      linearInterpolate(aapDvetData[tier], exact))
            /\ \A band \in DOMAIN maiselsData :
                  maiselsData[band].pl[2] < maiselsData[band].dvet[1]

\* TCB 20 at hour 24 with risk factors at 35 weeks: above both thresholds
C25_Witness ==
    /\ Called
    /\ ret # Null
    /\ args.tcbValue = Number(Num(20))
    /\ args.measurementDateTime = DayLater
    /\ args.birthDateTime = IsoText(BirthMoment)
    /\ ret.exchangeTransfusion = NumberThreshold("ABOVE", Num(15))
    /\ ret.phototherapy = NumberThreshold("ABOVE", Num(8))

----------------------------------------------------------------------------
Between(value, a, b) ==
    \/ RLe(a, value) /\ RLe(value, b)
    \/ RLe(b, value) /\ RLe(value, a)

(* C26: on a table with non-decreasing x and a query strictly inside its
   x-range, the bracket is a pair of adjacent points with
   left.x < query <= right.x; the result is the line through them at the
   query, not the equal-x fallback, so it lies between left.y and right.y
   and within the range of the table's y values. *)
C26_BracketAdjacent ==
    (Called /\ NonDecreasingX(args.points) /\ StrictlyInside(args.points, args.x)) =>
        LET points == args.points
            right == RightIndex(points, args.x)
            p0 == points[right - 1]
            p1 == points[right]
        IN  /\ right >= 2
            /\ RLt(p0[1], args.x)
            /\ RLe(args.x, p1[1])
            /\ ret = RAdd(p0[2], RDiv(RMul(RSub(args.x, p0[1]), RSub(p1[2], p0[2])),
                                      RSub(p1[1], p0[1])))
            /\ Between(ret, p0[2], p1[2])
            /\ \E i, j \in 1..Len(points) : Between(ret, points[i][2], points[j][2])

\* query 15 on the falling segment of the non-linear test table
C26_Witness ==
    /\ Called
    /\ args.points = nonLinear
    /\ args.x = Num(15)
    /\ RightIndex(args.points, args.x) = 3
    /\ ret = Num(15)

----------------------------------------------------------------------------
\* the number a form text of digits stands for; -1 for any other text
FieldNumber(text) ==
    IF text # <<>> /\ \A i \in 1..Len(text) : IsDigit(text[i])
    THEN DigitsValue(text, 1, Len(text) + 1)
    ELSE -1

WeeksAccepted(form) == FieldNumber(form.gestationalWeeks) \in 28..42

DaysAccepted(form) ==
    form.gestationalDays = <<>> \/ FieldNumber(form.gestationalDays) \in 0..6

TcbAccepted(form) == FieldNumber(form.tcbValue) > 0

RangeChecksPass(form) ==
    WeeksAccepted(form) /\ DaysAccepted(form) /\ TcbAccepted(form)

\* the birth text of the form is an earlier moment than its measurement text
FormChronological(form) ==
    /\ BothWritten(form)
    /\ ElapsedMinutes(form) > 0

(* C28: a submit that fails (a range check fails or the engine returns null)
   sets a non-empty error message and leaves the displayed result as it was;
   a submit that succeeds replaces the result and leaves the error empty. *)
C28_FailedSubmitKeepsResult ==
    [][(formInput' = formInput /\ handleSubmit) =>
          IF RangeChecksPass(formInput) /\ FormChronological(formInput)
          THEN /\ error' = ""
               /\ result' # Null
               /\ result' = ret'
               /\ result'.aog = formInput.gestationalWeeks \o <<"w", " ">>
                     \o (IF formInput.gestationalDays = <<>> THEN <<"0">>
                         ELSE formInput.gestationalDays) \o <<"d">>
          ELSE /\ error' # ""
               /\ result' = result]_vars

\* an error message shown together with the result of an earlier input
C28_Witness ==
    /\ error = WeeksError
    /\ result # Null
    /\ result.aog = <<"2", "8", "w", " ", "0", "d">>
    /\ formInput.gestationalWeeks = <<"4", "3">>

(* C29: handleSubmit calls the engine only when the weeks are a number in
   28..42, the days are in 0..6 (an empty days field counts as 0) and the TCB
   is a number > 0; otherwise it sets the matching error message and makes no
   call.  Every call made through the form has an age in [28, 42 + 6/7], and
   the Maisels band for ages under 28 is never selected. *)
C29_EngineCallsInRange ==
    /\ [](pc = "done" =>
            /\ args.gestationalWeeks.kind = "number"
            /\ args.gestationalWeeks.value[2] = 1
            /\ args.gestationalWeeks.value[1] \in 28..42
            /\ args.gestationalDays \in 0..6
            /\ args.tcbValue.kind = "number"
            /\ RGt(args.tcbValue.value, Num(0))
            /\ AgeDays(args) >= 28 * 7
            /\ AgeDays(args) <= 42 * 7 + 6
            /\ ret # Null => ret.phototherapy.threshold.value # <<"5", "-", "6">>)
    /\ [][(formInput' = formInput /\ handleSubmit) =>
            IF RangeChecksPass(formInput)
            THEN /\ pc' = "done"
                 /\ args'.gestationalWeeks =
                       Number(Num(FieldNumber(formInput.gestationalWeeks)))
                 /\ args'.gestationalDays =
                       (IF formInput.gestationalDays = <<>> THEN 0
                        ELSE FieldNumber(formInput.gestationalDays))
            ELSE /\ UNCHANGED <<op, args, ret, pc>>
                 /\ error' = (IF ~WeeksAccepted(formInput) THEN WeeksError
                              ELSE IF ~DaysAccepted(formInput) THEN DaysError
                              ELSE TcbError)]_vars

\* a call made for 28 weeks with the days field left empty
C29_Witness ==
    /\ pc = "done"
    /\ formInput.gestationalDays = <<>>
    /\ args.gestationalWeeks = Number(Num(28))
    /\ args.gestationalDays = 0
    /\ ret # Null
    /\ ret.phototherapy.threshold.value = <<"6", "-", "8">>

----------------------------------------------------------------------------
\* the input the engine is given for a form that passes the range checks
CallInput(form) ==
    [birthDateTime |-> form.birthDateTime,
     measurementDateTime |-> form.measurementDateTime,
     hasRiskFactors |-> form.hasRiskFactors,
     tcbValue |-> Number(Num(FieldNumber(form.tcbValue))),
     gestationalWeeks |-> Number(Num(FieldNumber(form.gestationalWeeks))),
     gestationalDays |-> IF form.gestationalDays = <<>> THEN 0
                         ELSE FieldNumber(form.gestationalDays)]

\* the forms that can be filled in while results are copied
UiForms ==
    [birthDateTime : UiValues.birthDateTime,
     measurementDateTime : UiValues.measurementDateTime,
     tcbValue : UiValues.tcbValue,
     gestationalWeeks : UiValues.gestationalWeeks,
     gestationalDays : {<<>>},
     hasRiskFactors : {FALSE}]

\* the summaries whose lines all describe one calculated input
ConsistentSummaries ==
    {textToCopy(form, calculateBilirubinRisk(CallInput(form))) : form \in UiForms}

(* C27: the clipboard summary is consistent with the displayed result: its
   DOB, TOB, AOG and risk-category lines describe the same input from which
   its HOL, TCB, threshold and zone lines were computed, in every reachable
   state, also after fields were edited following the last calculation. *)
C27_SummaryDescribesOneInput ==
    clipboard # NoText => clipboard \in ConsistentSummaries

(* C30: copying is a no-op without a result; when a copy has succeeded
   isCopied is true and the toast is shown; and with the pending callbacks
   run fairly isCopied always returns to false and the toast always clears,
   whatever copies, submits and resets come in between. *)
C30_CopyIndicatorLifecycle ==
    /\ [][(result = Null /\ formInput' = formInput /\ result' = result) =>
             /\ clipboard' = clipboard
             /\ Len(writes') <= Len(writes)]_vars
    /\ [][(\E i \in 1..Len(writes) : writes[i] /\ writes' = RemoveAt(writes, i)) =>
             /\ isCopied'
             /\ toastMessage' = CopiedToast]_vars
    /\ [][(isCopied /\ ~isCopied') => (result' = Null \/ Len(timers') < Len(timers))]_vars
    /\ (isCopied ~> ~isCopied)
    /\ (toastMessage # "" ~> toastMessage = "")

\* copied: indicator on, toast shown, both timers pending, another copy awaited
C30_Witness ==
    /\ isCopied
    /\ toastMessage = CopiedToast
    /\ clipboard # NoText
    /\ timers = <<"toast", "isCopied", "toast">>

====
